---- MODULE Spec2Model ----
(***************************************************************************)
(* The pre-game lobby (TeamMenu) of server/src/teamMenu.ts as a state      *)
(* machine.  One action per inbound message type of handleMsg, plus the    *)
(* removePlayer call the transport makes when a socket goes away.  Every   *)
(* action models the whole synchronous handler; what it sends is recorded  *)
(* in `effects`, whether it threw in `thrown`.                             *)
(*                                                                         *)
(* The classes of server/src/group.ts follow, each with specifications of  *)
(* its own: Group (SpecGroup), Game (SpecGame, SpecGameLive, SpecSync) and *)
(* SingleThreadGameManager (SpecManager, SpecRouting, SpecUpdate,          *)
(* SpecReserve).  A specification moves the variables of its own class     *)
(* and leaves the others at their initial values.                          *)
(***************************************************************************)
EXTENDS Integers, Sequences, FiniteSets, TLC

VARIABLES
    rooms,      \* TeamMenu.rooms: Map<roomUrl, Room>, a function on the active codes
    roomUrl,    \* TeamMenuPlayerContainer.roomUrl of every socket ("" = never set)
    effects,    \* what the last handler did to the outside, in order (sendMsg, addGroup)
    thrown,     \* "" or the exception that aborted the last handler
    req,        \* the request the last handler was called with
    opened,     \* how many sockets have connected; they are numbered in that order
    idle,       \* the last handler left rooms and every roomUrl as they were
    steps,      \* how many requests have been handled (bounds the exploration)
    group,      \* Group.players: the members in insertion order, with their flags
    asked,      \* the last Group query: which method, for which player, what it returned
    game,       \* a Game: its lifecycle flags, gas stage, pending stop timer, players by socket
    gameLog,    \* what the last call on the Game did: sockets closed, handler run, data reported
    objectRegister, \* Game.objectRegister: the created / dirty / deleted marks not yet flushed
    msgsToSend, \* Game.msgsToSend.stream.index: the cursor of the outbound buffer
    unsent,     \* what update() calls have marked and written since the last netSync()
    syncLog,    \* what the last update() or netSync() did: marks made, data sent, flushes
    games,      \* SingleThreadGameManager.games, each Game with its groups and group datas
    gamesById,  \* the keys of SingleThreadGameManager.gamesById
    sockets,    \* SingleThreadGameManager.sockets: socket id -> gameId of its user data
    pending,    \* the newGame calls that wait for game.init(), with the findGame that made them
    minted,     \* how many game ids and how many join codes randomBytes has produced
    mgrLog,     \* what the last manager call did: the match reached, sockets closed, the response
    mgrSteps    \* how many manager steps have been taken (bounds the exploration)

lobbyVars == <<rooms, roomUrl, effects, thrown, req, opened, idle, steps>>
groupVars == <<group, asked>>
syncVars == <<objectRegister, msgsToSend, unsent, syncLog>>
gameVars == <<game, gameLog, syncVars>>
managerVars == <<games, gamesById, sockets, pending, minted, mgrLog, mgrSteps>>

vars == <<rooms, roomUrl, effects, thrown, req, opened, idle, steps, group, asked,
          game, gameLog, objectRegister, msgsToSend, unsent, syncLog, games, gamesById, sockets, pending, minted, mgrLog, mgrSteps>>

----------------------------------------------------------------------------
(* Bounds and input sets *)

\* how many requests a behaviour holds
MaxSteps == 5
\* longest player list the model lets a room grow to
MaxRoomLen == 4
\* most calls of randomString(4) one create makes
MaxDraws == 2

Sockets == {1, 2, 3}
\* outcomes of randomString(4)
RawCodes == {"AAAA", "BBBB"}
\* outcomes of randomString(128)
RoomIds == {"id1", "id2"}
\* names a client sends with changeName
Names == {"Ann"}
\* names a client sends with create and join
JoinNames == {""}
\* room settings a client sends with create / setRoomProps
RoomDataInputs ==
    { [region |-> "na", gameModeIdx |-> 2, autoFill |-> TRUE,  findingGame |-> FALSE, lastError |-> ""],
      [region |-> "eu", gameModeIdx |-> 1, autoFill |-> FALSE, findingGame |-> FALSE, lastError |-> ""] }
\* playerId values a client sends with kick: every index of the longest room,
\* one before the first and one past the last (of the indices past the end of
\* the sender's room the leader sends the first only: the handler treats them alike)
KickIds == (-1)..MaxRoomLen
\* what server.findGame(...).res[0] can be: an error, or a match of some team mode
FindGameOutcomes ==
    { [err |-> TRUE,  gameId |-> "",   teamMode |-> 0],
      [err |-> FALSE, gameId |-> "g1", teamMode |-> 2],
      [err |-> FALSE, gameId |-> "g2", teamMode |-> 4] }

----------------------------------------------------------------------------
(* Helpers: JS Map and Array primitives *)

MapSet(m, k, v) == [x \in (DOMAIN m) \cup {k} |-> IF x = k THEN v ELSE m[x]]

MapDelete(m, k) == [x \in (DOMAIN m) \ {k} |-> m[x]]

\* math.clamp(a, min, max)
clamp(a, lo, hi) == IF a < hi THEN (IF a > lo THEN a ELSE lo) ELSE hi

\* Array.prototype.find(p => p.socketData === s), as a 1-based position; 0 = undefined
FindPlayer(players, s) ==
    IF \E i \in 1..Len(players) : players[i].socketData = s
    THEN CHOOSE i \in 1..Len(players) :
            /\ players[i].socketData = s
            /\ \A j \in 1..(i - 1) : players[j].socketData # s
    ELSE 0

\* players.splice(idx, 1) for the JS index idx = pos - 1; idx = -1 (indexOf of a
\* value not in the array) counts from the end and removes the last element
Splice1(players, pos) ==
    LET n == Len(players)
        p == IF pos = 0 THEN n ELSE pos
    IN  [i \in 1..(n - 1) |-> IF i < p THEN players[i] ELSE players[i + 1]]

Send(s, m) == [op |-> "sendMsg", to |-> s, msg |-> m]

\* teamErrorMsg(type)
teamErrorMsg(t) == [type |-> "error", data |-> [type |-> t]]

----------------------------------------------------------------------------
(* TeamMenu methods *)

\* the players array of a state message: room.players.map((player, id) => ...)
StatePlayers(players) ==
    [i \in 1..Len(players) |->
        [name |-> players[i].name, playerId |-> i - 1,
         isLeader |-> players[i].isLeader, inGame |-> players[i].inGame]]

\* sendRoomState that takes localPlayerId from the playerId stored in the entry
sendRoomStateStoredId(room) ==
    [i \in 1..Len(room.players) |->
        Send(room.players[i].socketData,
             [type |-> "state",
              data |-> [localPlayerId |-> room.players[i].playerId,
                        room |-> room.roomData,
                        players |-> StatePlayers(room.players)]])]

\* sendRoomState(room): one state message per entry of room.players, in order.
\* room.players.indexOf(player) compares object identity, so it is the position
\* of the entry the loop is at.
sendRoomState(room) ==
    [i \in 1..Len(room.players) |->
        Send(room.players[i].socketData,
             [type |-> "state",
              data |-> [localPlayerId |-> i - 1,
                        room |-> room.roomData,
                        players |-> StatePlayers(room.players)]])]

\* sendResponses(response, players)
sendResponses(response, players) ==
    [i \in 1..Len(players) |-> Send(players[i].socketData, response)]

\* addRoom(id, roomUrl, initialRoomData, roomLeader): the rooms map afterwards
addRoom(rms, id, url, initialRoomData, roomLeader) ==
    MapSet(rms, url,
        [id |-> id,
         roomData |-> [roomUrl |-> url,
                       region |-> initialRoomData.region,
                       gameModeIdx |-> initialRoomData.gameModeIdx,
                       enabledGameModeIdxs |-> <<1, 2>>,
                       autoFill |-> initialRoomData.autoFill,
                       findingGame |-> initialRoomData.findingGame,
                       lastError |-> initialRoomData.lastError,
                       maxPlayers |-> clamp(initialRoomData.gameModeIdx * 2, 2, 4)],
         players |-> <<roomLeader>>])

\* modifyRoom that copies gameModeIdx without recomputing maxPlayers
modifyRoomStaleMax(newRoomData, room) ==
    [room EXCEPT !.roomData.gameModeIdx = newRoomData.gameModeIdx,
                 !.roomData.autoFill = newRoomData.autoFill,
                 !.roomData.region = newRoomData.region]

\* modifyRoom(newRoomData, room)
modifyRoom(newRoomData, room) ==
    [room EXCEPT !.roomData.gameModeIdx = newRoomData.gameModeIdx,
                 !.roomData.maxPlayers = clamp(newRoomData.gameModeIdx * 2, 2, 4),
                 !.roomData.autoFill = newRoomData.autoFill,
                 !.roomData.region = newRoomData.region]

\* removePlayer that leaves an emptied room in the map
removePlayerKeepEmpty(rms, url, s) ==
    IF url \notin DOMAIN rms
    THEN [rooms |-> rms, effects |-> <<>>, thrown |-> "TypeError"]
    ELSE LET room == rms[url]
             pos  == FindPlayer(room.players, s)
             left == Splice1(room.players, pos)
         IN  IF Len(left) = 0
             THEN [rooms |-> MapSet(rms, url, [room EXCEPT !.players = left]),
                   effects |-> <<>>, thrown |-> ""]
             ELSE IF pos = 0
             THEN [rooms |-> MapSet(rms, url, [room EXCEPT !.players = left]),
                   effects |-> <<>>, thrown |-> "TypeError"]
             ELSE LET now == IF room.players[pos].isLeader
                             THEN [left EXCEPT ![1].isLeader = TRUE]
                             ELSE left
                      room2 == [room EXCEPT !.players = now]
                  IN  [rooms |-> MapSet(rms, url, room2),
                       effects |-> sendRoomState(room2), thrown |-> ""]

\* removePlayer that forgets to hand leadership on when the leader leaves
removePlayerNoHandOver(rms, url, s) ==
    IF url \notin DOMAIN rms
    THEN [rooms |-> rms, effects |-> <<>>, thrown |-> "TypeError"]
    ELSE LET room == rms[url]
             pos  == FindPlayer(room.players, s)
             left == Splice1(room.players, pos)
         IN  IF Len(left) = 0
             THEN [rooms |-> MapDelete(rms, url), effects |-> <<>>, thrown |-> ""]
             ELSE IF pos = 0
             THEN [rooms |-> MapSet(rms, url, [room EXCEPT !.players = left]),
                   effects |-> <<>>, thrown |-> "TypeError"]
             ELSE LET room2 == [room EXCEPT !.players = left]
                  IN  [rooms |-> MapSet(rms, url, room2),
                       effects |-> sendRoomState(room2), thrown |-> ""]

\* removePlayer(playerContainer), url = playerContainer.roomUrl.
\* The result: the rooms map afterwards, what was sent, and the exception if any.
\*  - no room under url: room.players throws
\*  - s not in the room: find gives undefined, indexOf gives -1, splice(-1, 1)
\*    removes the LAST player; if that empties the room it is deleted, otherwise
\*    pToRemove.isLeader throws after the splice
removePlayer(rms, url, s) ==
    IF url \notin DOMAIN rms
    THEN [rooms |-> rms, effects |-> <<>>, thrown |-> "TypeError"]
    ELSE LET room == rms[url]
             pos  == FindPlayer(room.players, s)
             left == Splice1(room.players, pos)
         IN  IF Len(left) = 0
             THEN [rooms |-> MapDelete(rms, url), effects |-> <<>>, thrown |-> ""]
             ELSE IF pos = 0
             THEN [rooms |-> MapSet(rms, url, [room EXCEPT !.players = left]),
                   effects |-> <<>>, thrown |-> "TypeError"]
             ELSE LET now == IF room.players[pos].isLeader
                             THEN [left EXCEPT ![1].isLeader = TRUE]
                             ELSE left
                      room2 == [room EXCEPT !.players = now]
                  IN  [rooms |-> MapSet(rms, url, room2),
                       effects |-> sendRoomState(room2), thrown |-> ""]

\* the room code of a drawn string: "#" + randomString(4)
Url == [c \in RawCodes |-> "#" \o c]

\* create without the regeneration loop: the first draw is the code
pickCodeFirstDraw(activeCodes, draws) ==
    IF draws = <<>> THEN "" ELSE Url[Head(draws)]

\* the code-generation loop of create: draws are the successive results of
\* randomString(4); "" when the draws run out before a free code turns up
RECURSIVE pickCode(_, _)
pickCode(activeCodes, draws) ==
    IF draws = <<>>
    THEN ""
    ELSE LET url == Url[Head(draws)]
         IN  IF url \in activeCodes THEN pickCode(activeCodes, Tail(draws)) ELSE url

\* randomString(128): 62^128 outcomes, so the id drawn is one no active room has;
\* which one is immaterial, ids are only ever compared for equality
FreshId(rms) == CHOOSE id \in RoomIds : \A c \in DOMAIN rms : rms[c].id # id

\* the results of up to MaxDraws successive calls of randomString(4)
AllDraws == UNION { [1..n -> RawCodes] : n \in 1..MaxDraws }

\* the draws a create consumes: every draw but the last hits an active code
DrawSeqs(activeCodes) ==
    { d \in AllDraws :
        /\ \A i \in 1..(Len(d) - 1) : Url[d[i]] \in activeCodes
        /\ Url[d[Len(d)]] \notin activeCodes }

\* the kick guard without the pToKick === player test
canKickSelfToo(players, pos, playerId) ==
    playerId + 1 \in 1..Len(players)

\* the kick guard: pToKick = room.players[playerId] exists and is not the sender's
\* own entry (the entry at position pos)
canKick(players, pos, playerId) ==
    /\ playerId + 1 \in 1..Len(players)
    /\ playerId + 1 # pos

\* the success path of playGame with joinGame sent before the party is registered
startGameJoinFirst(finding, playData) ==
    LET joinGame == [type |-> "joinGame",
                     data |-> [gameId |-> playData.gameId, data |-> finding.id]]
        done == [finding EXCEPT
                    !.players = [i \in 1..Len(finding.players) |->
                                    [finding.players[i] EXCEPT !.inGame = TRUE]],
                    !.roomData.findingGame = FALSE]
    IN  [room |-> done,
         effects |-> sendResponses(joinGame, finding.players)
                     \o <<[op |-> "addGroup", to |-> playData.gameId,
                           msg |-> [type |-> "addGroup", data |-> finding.id]]>>
                     \o sendRoomState(done)]

\* the success path of playGame, from game.addGroup on: what is sent, and the
\* room afterwards; `finding` is the room with findingGame set
startGame(finding, playData) ==
    LET joinGame == [type |-> "joinGame",
                     data |-> [gameId |-> playData.gameId, data |-> finding.id]]
        done == [finding EXCEPT
                    !.players = [i \in 1..Len(finding.players) |->
                                    [finding.players[i] EXCEPT !.inGame = TRUE]],
                    !.roomData.findingGame = FALSE]
    IN  [room |-> done,
         effects |-> <<[op |-> "addGroup", to |-> playData.gameId,
                        msg |-> [type |-> "addGroup", data |-> finding.id]]>>
                     \o sendResponses(joinGame, finding.players)
                     \o sendRoomState(done)]

----------------------------------------------------------------------------
(* State machine *)

\* no Group query has been made of an empty group
GroupIdle ==
    /\ group = <<>>
    /\ asked = [fn |-> "none", player |-> 0, result |-> FALSE]

\* new Game(id, config): the field initialisers and the constructor; the gas
\* starts at stage 0, no player has joined, no stop is scheduled
NewGame(id, teamMode) ==
    [id |-> id,
     teamMode |-> teamMode,
     gameModeIdx |-> teamMode \div 2,
     started |-> FALSE,
     stopped |-> FALSE,
     allowJoin |-> TRUE,
     over |-> FALSE,
     startedTime |-> 0,
     gasStage |-> 0,
     stopTimer |-> FALSE,
     socketIdToPlayer |-> <<>>]

\* the log of a call that did nothing to the outside
NoLog == [call |-> "none", type |-> "", socket |-> 0,
          closed |-> {}, handler |-> "none", player |-> 0, reports |-> <<>>]

\* nothing marked, nothing written
NoneUnsent == [changes |-> {}, bytes |-> 0]

\* the log of the register and the buffer before any update() or netSync()
NoSyncLog == [call |-> "none", changes |-> {}, written |-> 0,
              sent |-> NoneUnsent, flushes |-> 0]

\* a Game nothing has been called on
GameIdle ==
    /\ game = NewGame("g1", 1)
    /\ gameLog = NoLog
    /\ objectRegister = {}
    /\ msgsToSend = 0
    /\ unsent = NoneUnsent
    /\ syncLog = NoSyncLog

\* the log of a manager call that reached no match and answered nothing
NoBody == [gameModeIdx |-> -1, autoFill |-> FALSE]

NoMgrLog == [call |-> "none", socket |-> 0, type |-> "", body |-> NoBody,
             gameId |-> 0, data |-> 0, closed |-> {}, handler |-> "none",
             new |-> FALSE, reused |-> 0, updated |-> <<>>, now |-> 0]

\* a manager with no match, no socket and no call in flight
ManagerIdle ==
    /\ games = <<>>
    /\ gamesById = {}
    /\ sockets = <<>>
    /\ pending = <<>>
    /\ minted = [gameIds |-> 0, hashes |-> 0]
    /\ mgrLog = NoMgrLog
    /\ mgrSteps = 0

\* a TeamMenu that has handled nothing
LobbyIdle ==
    /\ rooms = <<>>
    /\ roomUrl = [s \in Sockets |-> ""]
    /\ effects = <<>>
    /\ thrown = ""
    /\ req = [type |-> "init", sock |-> 0, data |-> <<>>]
    /\ opened = 0
    /\ idle = FALSE
    /\ steps = 0

Init ==
    /\ LobbyIdle
    /\ GroupIdle
    /\ GameIdle
    /\ ManagerIdle

\* A call of handleMsg or removePlayer for socket s: s has connected, or is
\* the next socket to connect.  A request that changes neither rooms nor a
\* roomUrl can be deleted from a behaviour without changing any later state, so
\* the behaviours explored hold such a request only as their last one.
Handled(type, s, data) ==
    /\ steps < MaxSteps
    /\ steps' = steps + 1
    /\ ~idle
    /\ s <= opened + 1
    /\ opened' = IF s > opened THEN s ELSE opened
    /\ req' = [type |-> type, sock |-> s, data |-> data]
    /\ UNCHANGED <<groupVars, gameVars, managerVars>>

\* a handler that throws before it changed or sent anything
Throws ==
    /\ rooms' = rooms
    /\ effects' = <<>>
    /\ thrown' = "TypeError"
    /\ UNCHANGED roomUrl

\* a handler that returns without doing anything
Dropped ==
    /\ rooms' = rooms
    /\ effects' = <<>>
    /\ thrown' = ""
    /\ UNCHANGED roomUrl

\* case "create"
Create(s, name, roomData, draws, roomId) ==
    LET nm     == IF name # "" THEN name ELSE "Player"
        player == [name |-> nm, isLeader |-> TRUE, inGame |-> FALSE,
                   playerId |-> 0, socketData |-> s]
        url    == pickCode(DOMAIN rooms, draws)
        added  == addRoom(rooms, roomId, url, roomData, player)
    IN  /\ url # ""
        /\ Handled("create", s, [name |-> name, roomData |-> roomData,
                                 draws |-> draws, roomId |-> roomId])
        /\ roomUrl' = [roomUrl EXCEPT ![s] = url]
        /\ rooms' = added
        /\ effects' = sendRoomState(added[url])
        /\ thrown' = ""

\* case "join"
Join(s, code, name) ==
    LET url == Url[code]
    IN  /\ Handled("join", s, [roomUrl |-> code, name |-> name])
        /\ thrown' = ""
        /\ IF url \notin DOMAIN rooms
           THEN /\ effects' = <<Send(s, teamErrorMsg("join_failed"))>>
                /\ UNCHANGED <<rooms, roomUrl>>
           ELSE IF rooms[url].roomData.maxPlayers = Len(rooms[url].players)
           THEN /\ effects' = <<Send(s, teamErrorMsg("join_full"))>>
                /\ UNCHANGED <<rooms, roomUrl>>
           ELSE LET room   == rooms[url]
                    nm     == IF name # "" THEN name ELSE "Player"
                    player == [name |-> nm, isLeader |-> FALSE, inGame |-> FALSE,
                               playerId |-> Len(room.players) - 1, socketData |-> s]
                    room2  == [room EXCEPT !.players = Append(@, player)]
                IN  /\ Len(room.players) < MaxRoomLen
                    /\ rooms' = MapSet(rooms, url, room2)
                    /\ roomUrl' = [roomUrl EXCEPT ![s] = url]
                    /\ effects' = sendRoomState(room2)

\* case "changeName"
ChangeName(s, newName) ==
    /\ Handled("changeName", s, [name |-> newName])
    /\ IF roomUrl[s] \notin DOMAIN rooms
       THEN Throws
       ELSE LET room == rooms[roomUrl[s]]
                pos  == FindPlayer(room.players, s)
            IN  IF pos = 0
                THEN Throws
                ELSE LET room2 == [room EXCEPT !.players[pos].name = newName]
                     IN  /\ rooms' = MapSet(rooms, roomUrl[s], room2)
                         /\ effects' = sendRoomState(room2)
                         /\ thrown' = ""
                         /\ UNCHANGED roomUrl

\* case "setRoomProps"
SetRoomProps(s, newRoomData) ==
    /\ Handled("setRoomProps", s, newRoomData)
    /\ IF roomUrl[s] \notin DOMAIN rooms
       THEN Throws
       ELSE LET room == rooms[roomUrl[s]]
                pos  == FindPlayer(room.players, s)
            IN  IF pos = 0
                THEN Throws
                ELSE IF ~room.players[pos].isLeader
                THEN Dropped
                ELSE LET room2 == modifyRoom(newRoomData, room)
                     IN  /\ rooms' = MapSet(rooms, roomUrl[s], room2)
                         /\ effects' = sendRoomState(room2)
                         /\ thrown' = ""
                         /\ UNCHANGED roomUrl

\* case "kick": the player removed is the one removePlayer is called with
Kick(s, playerId) ==
    /\ Handled("kick", s, [playerId |-> playerId])
    /\ IF roomUrl[s] \notin DOMAIN rooms
       THEN Throws
       ELSE LET room == rooms[roomUrl[s]]
                pos  == FindPlayer(room.players, s)
            IN  IF pos = 0
                THEN Throws
                ELSE IF ~room.players[pos].isLeader
                THEN Dropped
                ELSE IF ~canKick(room.players, pos, playerId)
                THEN Dropped
                ELSE LET pToKick == room.players[playerId + 1]
                         r       == removePlayer(rooms, roomUrl[s], s)
                     IN  /\ rooms' = r.rooms
                         /\ thrown' = r.thrown
                         /\ effects' = IF r.thrown = ""
                                       THEN r.effects \o <<Send(pToKick.socketData, [type |-> "kicked"])>>
                                       ELSE r.effects
                         /\ UNCHANGED roomUrl

\* case "keepAlive"
KeepAlive(s) ==
    /\ Handled("keepAlive", s, <<>>)
    /\ IF roomUrl[s] \notin DOMAIN rooms
       THEN Dropped
       ELSE /\ effects' = sendResponses([type |-> "keepAlive", data |-> <<>>],
                                        rooms[roomUrl[s]].players)
            /\ thrown' = ""
            /\ UNCHANGED <<rooms, roomUrl>>

\* case "playGame"; playData is server.findGame(...).res[0], teamMode the mode
\* of the match server.games holds under playData.gameId
PlayGame(s, playData) ==
    /\ Handled("playGame", s, playData)
    /\ IF roomUrl[s] \notin DOMAIN rooms
       THEN Throws
       ELSE LET room == rooms[roomUrl[s]]
                pos  == FindPlayer(room.players, s)
            IN  IF pos = 0
                THEN Throws
                ELSE IF ~room.players[pos].isLeader
                THEN Dropped
                ELSE LET finding == [room EXCEPT !.roomData.findingGame = TRUE]
                         first   == sendRoomState(finding)
                         failed  == first \o <<Send(s, teamErrorMsg("find_game_error"))>>
                     IN  /\ thrown' = ""
                         /\ UNCHANGED roomUrl
                         /\ IF playData.err
                            THEN /\ rooms' = MapSet(rooms, roomUrl[s], finding)
                                 /\ effects' = failed
                            ELSE IF playData.teamMode # room.roomData.gameModeIdx * 2
                            THEN /\ rooms' = MapSet(rooms, roomUrl[s], finding)
                                 /\ effects' = failed
                            ELSE LET started == startGame(finding, playData)
                                 IN  /\ rooms' = MapSet(rooms, roomUrl[s], started.room)
                                     /\ effects' = first \o started.effects

\* case "gameComplete"
GameComplete(s) ==
    /\ Handled("gameComplete", s, <<>>)
    /\ IF roomUrl[s] \notin DOMAIN rooms
       THEN Throws
       ELSE LET room == rooms[roomUrl[s]]
                pos  == FindPlayer(room.players, s)
            IN  IF pos = 0
                THEN Throws
                ELSE LET room2 == [room EXCEPT !.players[pos].inGame = FALSE]
                     IN  /\ rooms' = MapSet(rooms, roomUrl[s], room2)
                         /\ effects' = sendRoomState(room2)
                         /\ thrown' = ""
                         /\ UNCHANGED roomUrl

\* removePlayer(playerContainer) called from outside handleMsg (the socket went away)
RemovePlayer(s) ==
    LET r == removePlayer(rooms, roomUrl[s], s)
    IN  /\ Handled("removePlayer", s, <<>>)
        /\ rooms' = r.rooms
        /\ effects' = r.effects
        /\ thrown' = r.thrown
        /\ UNCHANGED roomUrl

\* s is an entry of the room its roomUrl resolves to / the leader entry of it
IsMember(s) ==
    /\ roomUrl[s] \in DOMAIN rooms
    /\ FindPlayer(rooms[roomUrl[s]].players, s) # 0

IsLeader(s) ==
    /\ IsMember(s)
    /\ rooms[roomUrl[s]].players[FindPlayer(rooms[roomUrl[s]].players, s)].isLeader

Settle == idle' = (rooms' = rooms /\ roomUrl' = roomUrl)

\* the sockets that have been through a create or a join that set their roomUrl;
\* only they send the in-room messages, and only they are removed on close
Joined == { s \in Sockets : roomUrl[s] # "" }

\* the behaviour takes one more request (the guard of Handled, tested first)
Accepting == steps < MaxSteps /\ ~idle

\* The requests.  A handler that returns or throws before it reads its payload
\* is called with one payload only; every other handler with every payload.
DoCreate ==
    Accepting /\
    \E d \in DrawSeqs(DOMAIN rooms) :
        \E s \in Sockets, name \in JoinNames, rd \in RoomDataInputs :
            Create(s, name, rd, d, FreshId(rooms)) /\ Settle

DoJoin ==
    Accepting /\
    \E s \in Sockets, c \in RawCodes, name \in JoinNames : Join(s, c, name) /\ Settle

DoChangeName ==
    Accepting /\
    \E s \in Joined, name \in Names : ChangeName(s, name) /\ Settle

DoSetRoomProps ==
    Accepting /\
    \E s \in Joined, rd \in RoomDataInputs :
        /\ IsLeader(s) \/ rd.gameModeIdx = 1
        /\ SetRoomProps(s, rd)
        /\ Settle

DoKick ==
    Accepting /\
    \E s \in Joined, id \in KickIds :
        /\ IsLeader(s) \/ id = 0
        /\ IsLeader(s) => id <= Len(rooms[roomUrl[s]].players)
        /\ Kick(s, id)
        /\ Settle

DoKeepAlive ==
    Accepting /\
    \E s \in Joined : KeepAlive(s) /\ Settle

DoPlayGame ==
    Accepting /\
    \E s \in Joined, pd \in FindGameOutcomes :
        /\ IsLeader(s) \/ pd.err
        /\ PlayGame(s, pd)
        /\ Settle

DoGameComplete ==
    Accepting /\
    \E s \in Joined : GameComplete(s) /\ Settle

DoRemovePlayer ==
    Accepting /\
    \E s \in Joined : RemovePlayer(s) /\ Settle

Next ==
    \/ DoCreate
    \/ DoJoin
    \/ DoChangeName
    \/ DoSetRoomProps
    \/ DoKick
    \/ DoKeepAlive
    \/ DoPlayGame
    \/ DoGameComplete
    \/ DoRemovePlayer

Spec == Init /\ [][Next]_vars

----------------------------------------------------------------------------
(* Group: the teammate queries of group.ts, lines 7-129 *)

\* longest member list of a group
MaxGroupLen == 3

\* a Player as Group reads it; id is the object's identity, 0 is undefined
PlayerFlags == [dead : BOOLEAN, downed : BOOLEAN, disconnected : BOOLEAN]

\* the groups of n members: member i is the i-th player added
GroupsOfLen(n) ==
    { [i \in 1..n |-> [id |-> i, dead |-> f[i].dead, downed |-> f[i].downed,
                       disconnected |-> f[i].disconnected]] :
        f \in [1..n -> PlayerFlags] }

\* Array.indexOf on a list of players: 0-based, -1 when absent
indexOf(list, p) ==
    IF \E i \in 1..Len(list) : list[i].id = p
    THEN (CHOOSE i \in 1..Len(list) :
              list[i].id = p /\ \A j \in 1..(i - 1) : list[j].id # p) - 1
    ELSE -1

\* getPlayers(p => !p.dead && !p.disconnected)
getAlivePlayers(g) == SelectSeq(g, LAMBDA q : ~q.dead /\ ~q.disconnected)

\* allTeammatesDowned with Array.every left to answer for the empty list
allTeammatesDownedVacuous(g, p) ==
    LET filteredPlayers == SelectSeq(g, LAMBDA q : q.id # p /\ ~q.dead)
    IN  \A i \in 1..Len(filteredPlayers) : filteredPlayers[i].downed

\* Group.allTeammatesDowned(player)
allTeammatesDowned(g, p) ==
    LET filteredPlayers == SelectSeq(g, LAMBDA q : q.id # p /\ ~q.dead)
    IN  IF Len(filteredPlayers) = 0
        THEN FALSE
        ELSE \A i \in 1..Len(filteredPlayers) : filteredPlayers[i].downed

\* allTeammatesDeadOrDisconnected without the solo case
allTeammatesDeadOrDisconnectedNoSolo(g, p) ==
    LET filteredPlayers == SelectSeq(g, LAMBDA q : q.id # p)
    IN  IF Len(filteredPlayers) = 0
        THEN FALSE
        ELSE \A i \in 1..Len(filteredPlayers) :
                 filteredPlayers[i].dead \/ filteredPlayers[i].disconnected

\* Group.allTeammatesDeadOrDisconnected(player)
allTeammatesDeadOrDisconnected(g, p) ==
    IF Len(g) = 1 /\ g[1].id = p
    THEN TRUE
    ELSE LET filteredPlayers == SelectSeq(g, LAMBDA q : q.id # p)
         IN  IF Len(filteredPlayers) = 0
             THEN FALSE
             ELSE \A i \in 1..Len(filteredPlayers) :
                      filteredPlayers[i].dead \/ filteredPlayers[i].disconnected

\* Group.nextPlayer(currentPlayer); with no alive player the index is NaN and
\* the result undefined
nextPlayer(g, p) ==
    LET alivePlayers == getAlivePlayers(g)
        currentPlayerIndex == indexOf(alivePlayers, p)
    IN  IF Len(alivePlayers) = 0
        THEN 0
        ELSE alivePlayers[((currentPlayerIndex + 1) % Len(alivePlayers)) + 1].id

\* prevPlayer that steps back without wrapping
prevPlayerNoWrap(g, p) ==
    LET alivePlayers == getAlivePlayers(g)
        newIndex == indexOf(alivePlayers, p) - 1
    IN  IF newIndex \in 0..(Len(alivePlayers) - 1)
        THEN alivePlayers[newIndex + 1].id
        ELSE 0

\* Group.prevPlayer(currentPlayer); an index outside the list reads undefined
prevPlayer(g, p) ==
    LET alivePlayers == getAlivePlayers(g)
        currentPlayerIndex == indexOf(alivePlayers, p)
        newIndex == IF currentPlayerIndex = 0
                    THEN Len(alivePlayers) - 1
                    ELSE currentPlayerIndex - 1
    IN  IF newIndex \in 0..(Len(alivePlayers) - 1)
        THEN alivePlayers[newIndex + 1].id
        ELSE 0

\* the players a query is made for: the members and one player of another group
Askable == 1..(Len(group) + 1)

\* the group is any list of up to MaxGroupLen players, whatever their flags
InitGroup ==
    /\ LobbyIdle
    /\ GameIdle
    /\ ManagerIdle
    /\ group \in UNION { GroupsOfLen(n) : n \in 0..MaxGroupLen }
    /\ asked = [fn |-> "none", player |-> 0, result |-> FALSE]

AskAllTeammatesDowned ==
    \E p \in Askable :
        /\ asked' = [fn |-> "allTeammatesDowned", player |-> p,
                     result |-> allTeammatesDowned(group, p)]
        /\ UNCHANGED <<group, lobbyVars, gameVars, managerVars>>

AskAllTeammatesDeadOrDisconnected ==
    \E p \in Askable :
        /\ asked' = [fn |-> "allTeammatesDeadOrDisconnected", player |-> p,
                     result |-> allTeammatesDeadOrDisconnected(group, p)]
        /\ UNCHANGED <<group, lobbyVars, gameVars, managerVars>>

AskNextPlayer ==
    \E p \in Askable :
        /\ asked' = [fn |-> "nextPlayer", player |-> p, result |-> nextPlayer(group, p)]
        /\ UNCHANGED <<group, lobbyVars, gameVars, managerVars>>

AskPrevPlayer ==
    \E p \in Askable :
        /\ asked' = [fn |-> "prevPlayer", player |-> p, result |-> prevPlayer(group, p)]
        /\ UNCHANGED <<group, lobbyVars, gameVars, managerVars>>

NextGroup ==
    \/ AskAllTeammatesDowned
    \/ AskAllTeammatesDeadOrDisconnected
    \/ AskNextPlayer
    \/ AskPrevPlayer

SpecGroup == InitGroup /\ [][NextGroup]_vars

----------------------------------------------------------------------------
(* Game: admission, message dispatch and teardown of group.ts, lines 158-439 *)

\* map.mapDef.gameMode.maxPlayers of the model's mode
MapMaxPlayers == 2
\* last gas stage the model lets the gas reach
MaxGasStage == 2

GameSockets == {1, 2, 3}
\* net.MsgType of an inbound message; "Other" is any type handleMsg has no case for
MsgTypes == {"Join", "Input", "Emote", "DropItem", "Spectate", "Other"}

\* get aliveCount: playerBarn.livingPlayers.length
aliveCount(g) ==
    Cardinality({ s \in DOMAIN g.socketIdToPlayer : ~g.socketIdToPlayer[s].dead })

\* canJoin that does not look at the over flag
canJoinWhileOver(g) ==
    /\ aliveCount(g) < MapMaxPlayers
    /\ g.gasStage < 2

\* get canJoin
canJoin(g) ==
    /\ aliveCount(g) < MapMaxPlayers
    /\ ~g.over
    /\ g.gasStage < 2

\* playerBarn.addPlayer(socketId, joinMsg): the socket gets a player, alive and connected
addPlayer(g, socketId) ==
    [g EXCEPT !.socketIdToPlayer =
        MapSet(@, socketId, [dead |-> FALSE, disconnected |-> FALSE])]

\* what a call returns to the action: the Game after it and what it did
Did(g, closed, handler, player) ==
    [game |-> g, closed |-> closed, handler |-> handler, player |-> player]

\* handleMsg that lets a Join through whether or not the socket has a player
handleMsgJoinAgain(g, type, socketId) ==
    IF type = "Join"
    THEN Did(addPlayer(g, socketId), {}, "addPlayer", socketId)
    ELSE IF socketId \notin DOMAIN g.socketIdToPlayer
    THEN Did(g, {socketId}, "none", 0)
    ELSE CASE type = "Input"    -> Did(g, {}, "handleInput", socketId)
           [] type = "Emote"    -> IF g.socketIdToPlayer[socketId].dead
                                   THEN Did(g, {}, "none", 0)
                                   ELSE Did(g, {}, "emote", socketId)
           [] type = "DropItem" -> Did(g, {}, "dropItem", socketId)
           [] type = "Spectate" -> Did(g, {}, "spectate", socketId)
           [] OTHER             -> Did(g, {}, "none", 0)

\* Game.handleMsg(buff, socketId); the player is known by the socket it is filed under
handleMsg(g, type, socketId) ==
    IF type = "Join" /\ socketId \notin DOMAIN g.socketIdToPlayer
    THEN Did(addPlayer(g, socketId), {}, "addPlayer", socketId)
    ELSE IF socketId \notin DOMAIN g.socketIdToPlayer
    THEN Did(g, {socketId}, "none", 0)
    ELSE CASE type = "Input"    -> Did(g, {}, "handleInput", socketId)
           [] type = "Emote"    -> IF g.socketIdToPlayer[socketId].dead
                                   THEN Did(g, {}, "none", 0)
                                   ELSE Did(g, {}, "emote", socketId)
           [] type = "DropItem" -> Did(g, {}, "dropItem", socketId)
           [] type = "Spectate" -> Did(g, {}, "spectate", socketId)
           [] OTHER             -> Did(g, {}, "none", 0)

\* Game.handleSocketClose(socketId); early: player.timeAlive < minActiveTime,
\* and playerBarn.removePlayer then drops the player
handleSocketClose(g, socketId, early) ==
    IF socketId \notin DOMAIN g.socketIdToPlayer
    THEN g
    ELSE IF early
    THEN [g EXCEPT !.socketIdToPlayer = MapDelete(@, socketId)]
    ELSE [g EXCEPT !.socketIdToPlayer[socketId].disconnected = TRUE]

\* checkGameOver without the early return of a match that is over
checkGameOverAgain(g, didGameEnd) ==
    IF didGameEnd
    THEN [g EXCEPT !.over = TRUE, !.stopTimer = TRUE]
    ELSE g

\* Game.checkGameOver(); didGameEnd is contextManager.handleGameEnd()
checkGameOver(g, didGameEnd) ==
    IF g.over
    THEN g
    ELSE IF didGameEnd
    THEN [g EXCEPT !.over = TRUE, !.stopTimer = TRUE]
    ELSE g

\* Game.stop()
stop(g) ==
    IF g.stopped
    THEN g
    ELSE [g EXCEPT !.stopped = TRUE, !.allowJoin = FALSE]

\* the sockets stop() closes: those of the players not disconnected
stopCloses(g) ==
    IF g.stopped
    THEN {}
    ELSE { s \in DOMAIN g.socketIdToPlayer : ~g.socketIdToPlayer[s].disconnected }

InitGame ==
    /\ LobbyIdle
    /\ GroupIdle
    /\ GameIdle
    /\ ManagerIdle

GameHandleMsg ==
    \E type \in MsgTypes, s \in GameSockets :
        LET r == handleMsg(game, type, s)
        IN  /\ game' = r.game
            /\ gameLog' = [call |-> "handleMsg", type |-> type, socket |-> s,
                           closed |-> r.closed, handler |-> r.handler,
                           player |-> r.player, reports |-> <<>>]
            /\ UNCHANGED <<lobbyVars, groupVars, managerVars, syncVars>>

GameHandleSocketClose ==
    \E s \in GameSockets, early \in BOOLEAN :
        /\ game' = handleSocketClose(game, s, early)
        /\ gameLog' = [NoLog EXCEPT !.call = "handleSocketClose", !.socket = s]
        /\ UNCHANGED <<lobbyVars, groupVars, managerVars, syncVars>>

\* a living player is killed (Player.kill)
GamePlayerDies ==
    \E s \in DOMAIN game.socketIdToPlayer :
        /\ ~game.socketIdToPlayer[s].dead
        /\ game' = [game EXCEPT !.socketIdToPlayer[s].dead = TRUE]
        /\ gameLog' = [NoLog EXCEPT !.call = "kill", !.socket = s]
        /\ UNCHANGED <<lobbyVars, groupVars, managerVars, syncVars>>

\* the gas moves on to its next stage (Gas.update)
GameGasAdvance ==
    /\ game.gasStage < MaxGasStage
    /\ game' = [game EXCEPT !.gasStage = @ + 1]
    /\ gameLog' = [NoLog EXCEPT !.call = "gas"]
    /\ UNCHANGED <<lobbyVars, groupVars, managerVars, syncVars>>

\* checkGameOver(), which reports through updateData() when the game has just ended
GameCheckGameOver ==
    \E didGameEnd \in BOOLEAN :
        LET g == checkGameOver(game, didGameEnd)
        IN  /\ game' = g
            /\ gameLog' = [NoLog EXCEPT !.call = "checkGameOver",
                                        !.reports = IF g.over /\ ~game.over
                                                    THEN <<canJoin(g)>> ELSE <<>>]
            /\ UNCHANGED <<lobbyVars, groupVars, managerVars, syncVars>>

\* the timer checkGameOver set fires: stop(), which reports through updateData()
GameStopTimer ==
    /\ game.stopTimer
    /\ LET g == [stop(game) EXCEPT !.stopTimer = FALSE]
       IN  /\ game' = g
           /\ gameLog' = [NoLog EXCEPT !.call = "stop",
                                       !.closed = stopCloses(game),
                                       !.reports = IF game.stopped
                                                   THEN <<>> ELSE <<canJoin(g)>>]
    /\ UNCHANGED <<lobbyVars, groupVars, managerVars, syncVars>>

NextGame ==
    \/ GameHandleMsg
    \/ GameHandleSocketClose
    \/ GamePlayerDies
    \/ GameGasAdvance
    \/ GameCheckGameOver
    \/ GameStopTimer

SpecGame == InitGame /\ [][NextGame]_vars

\* a timer that setTimeout has set fires: the event loop runs its callback
SpecGameLive == SpecGame /\ WF_vars(GameStopTimer)

----------------------------------------------------------------------------
(* Game.update and Game.netSync: the object register and the outbound      *)
(* buffer between the simulation ticks and the sync ticks                  *)

\* most bytes the outbound buffer holds
MaxBuffer == 2

\* the objects of the match
Objects == {1, 2}
\* the marks the register keeps for an object until the next flush
Marks == {"created", "dirty", "deleted"}
\* what one update() does to the register: nothing, or one mark on one object
TickChanges == {{}} \cup { {<<m, o>>} : m \in Marks, o \in Objects }

\* objectRegister.serializeObjs(): the marks that go into the update messages
serializeObjs(reg) == reg

\* objectRegister.flush(): the created / dirty / deleted marks are cleared
flush(reg) == {}

\* Game.update(), lines 258-301, as the register and the buffer see it: the
\* barns register, move and unregister objects and broadcast messages; the
\* register is not flushed and the cursor not reset
update(reg, index, changes, written) ==
    [objectRegister |-> reg \cup changes, msgsToSend |-> index + written]

\* netSync that resets before it serializes and sends
netSyncFlushFirst(reg, index) ==
    LET flushed == flush(reg)
    IN  [sent |-> [changes |-> serializeObjs(flushed), bytes |-> 0],
         objectRegister |-> flushed,
         msgsToSend |-> 0,
         flushes |-> 1]

\* Game.netSync(), lines 303-318: serializeObjs and sendMsgs, then the
\* flushes, then the cursor back to 0
netSync(reg, index) ==
    [sent |-> [changes |-> serializeObjs(reg), bytes |-> index],
     objectRegister |-> flush(reg),
     msgsToSend |-> 0,
     flushes |-> 1]

InitSync ==
    /\ LobbyIdle
    /\ GroupIdle
    /\ GameIdle
    /\ ManagerIdle

\* the simulation timer fires: update()
SyncUpdate ==
    \E changes \in TickChanges, written \in 0..1 :
        LET r == update(objectRegister, msgsToSend, changes, written)
        IN  /\ r.msgsToSend <= MaxBuffer
            /\ objectRegister' = r.objectRegister
            /\ msgsToSend' = r.msgsToSend
            /\ unsent' = [changes |-> unsent.changes \cup changes,
                          bytes |-> unsent.bytes + written]
            /\ syncLog' = [NoSyncLog EXCEPT !.call = "update", !.changes = changes,
                                            !.written = written]
            /\ UNCHANGED <<game, gameLog, lobbyVars, groupVars, managerVars>>

\* the sync timer fires: netSync()
SyncNetSync ==
    LET r == netSync(objectRegister, msgsToSend)
    IN  /\ objectRegister' = r.objectRegister
        /\ msgsToSend' = r.msgsToSend
        /\ unsent' = NoneUnsent
        /\ syncLog' = [NoSyncLog EXCEPT !.call = "netSync", !.sent = r.sent,
                                        !.flushes = r.flushes]
        /\ UNCHANGED <<game, gameLog, lobbyVars, groupVars, managerVars>>

NextSync ==
    \/ SyncUpdate
    \/ SyncNetSync

SpecSync == InitSync /\ [][NextSync]_vars

----------------------------------------------------------------------------
(* SingleThreadGameManager: matchmaking and socket routing of group.ts,    *)
(* lines 490-663                                                           *)

\* how many manager steps a behaviour holds
MaxMgrSteps == 7
\* how many matches a behaviour creates
MaxGameIds == 2
\* how many join codes a behaviour mints
MaxHashes == 2
\* largest startedTime a match reaches, in ticks
MaxTime == 1

MgrSockets == {1, 2}
\* the message types the routed sockets send
MgrMsgTypes == {"Join", "Input"}
\* Config.modes[i].teamMode for i = 0, 1, 2: TeamMode.Solo, Duo, Squad
ConfigModes == <<1, 2, 4>>
\* the FindGameBody values: solo, and duo with and without auto-fill
FindBodies ==
    {[gameModeIdx |-> 0, autoFill |-> FALSE]}
        \cup {[gameModeIdx |-> 1, autoFill |-> a] : a \in BOOLEAN}
\* game.getSmallestTeam(): 0 is undefined (no faction mode), else the team's teamId
Teams == {0, 1}

\* a Game as the manager holds it, with the groups and group datas of the match
Entry(g) == [game |-> g, groups |-> <<>>, groupDatas |-> <<>>]

\* the match of games filed under an id of gamesById
GameIndex(gs, id) == CHOOSE i \in 1..Len(gs) : gs[i].game.id = id

\* findGame's choice with the sort left out: the first match that qualifies
pickGameFirst(gs, body) ==
    LET ok == { i \in 1..Len(gs) :
                  canJoin(gs[i].game) /\ gs[i].game.gameModeIdx = body.gameModeIdx }
    IN  IF ok = {} THEN 0 ELSE CHOOSE i \in ok : \A j \in ok : i <= j

\* findGame, lines 584-590: filter, (stable) sort by startedTime, first element;
\* 0 when the filtered list is empty
pickGame(gs, body) ==
    LET ok == { i \in 1..Len(gs) :
                  canJoin(gs[i].game) /\ gs[i].game.gameModeIdx = body.gameModeIdx }
    IN  IF ok = {}
        THEN 0
        ELSE CHOOSE i \in ok :
                 \A j \in ok :
                     \/ gs[i].game.startedTime < gs[j].game.startedTime
                     \/ gs[i].game.startedTime = gs[j].game.startedTime /\ i <= j

\* the groups findGame may reuse, lines 612-619
fits(e, body, team) ==
    IF body.autoFill
    THEN { k \in 1..Len(e.groups) :
             /\ team # 0 => team = e.groups[k].teamId
             /\ e.groups[k].autoFill
             /\ e.groups[k].players + e.groups[k].reservedSlots
                    < ConfigModes[body.gameModeIdx + 1] }
    ELSE {}

\* group placement that reserves without looking at the slots already reserved
placeGroupNoReserveCheck(e, body, team, fresh) ==
    IF ConfigModes[body.gameModeIdx + 1] > 1
    THEN LET ok == IF body.autoFill
                   THEN { k \in 1..Len(e.groups) :
                            /\ team # 0 => team = e.groups[k].teamId
                            /\ e.groups[k].autoFill
                            /\ e.groups[k].players < ConfigModes[body.gameModeIdx + 1] }
                   ELSE {}
             k  == IF ok = {} THEN 0 ELSE CHOOSE i \in ok : \A j \in ok : i <= j
             hash == IF k # 0 THEN e.groups[k].hash ELSE fresh
             autoFill == IF k # 0 THEN e.groups[k].autoFill ELSE body.autoFill
         IN  [entry |-> [e EXCEPT
                            !.groups = IF k # 0
                                       THEN [@ EXCEPT ![k].reservedSlots = @ + 1]
                                       ELSE @,
                            !.groupDatas = Append(@, [hash |-> hash, autoFill |-> autoFill])],
              data |-> hash, reused |-> k, minted |-> (k = 0)]
    ELSE [entry |-> e, data |-> 0, reused |-> 0, minted |-> FALSE]

\* findGame, lines 603-636: the group placement on the chosen match; fresh is
\* the code randomBytes gives if one is minted, data 0 the empty string
placeGroup(e, body, team, fresh) ==
    IF ConfigModes[body.gameModeIdx + 1] > 1
    THEN LET ok == fits(e, body, team)
             k  == IF ok = {} THEN 0 ELSE CHOOSE i \in ok : \A j \in ok : i <= j
             hash == IF k # 0 THEN e.groups[k].hash ELSE fresh
             autoFill == IF k # 0 THEN e.groups[k].autoFill ELSE body.autoFill
         IN  [entry |-> [e EXCEPT
                            !.groups = IF k # 0
                                       THEN [@ EXCEPT ![k].reservedSlots = @ + 1]
                                       ELSE @,
                            !.groupDatas = Append(@, [hash |-> hash, autoFill |-> autoFill])],
              data |-> hash, reused |-> k, minted |-> (k = 0)]
    ELSE [entry |-> e, data |-> 0, reused |-> 0, minted |-> FALSE]

\* one more step of the manager's event loop; the other classes stand still
MgrStep ==
    /\ mgrSteps < MaxMgrSteps
    /\ mgrSteps' = mgrSteps + 1
    /\ UNCHANGED <<lobbyVars, groupVars, gameVars>>

\* the values getSmallestTeam() is tried with: it is read only when auto-fill is asked
TeamsFor(body) == IF body.autoFill THEN Teams ELSE {0}

\* the constructor: no match yet, newGame(Config.modes[0]) waits for game.init()
InitManager ==
    /\ LobbyIdle
    /\ GroupIdle
    /\ GameIdle
    /\ games = <<>>
    /\ gamesById = {}
    /\ sockets = <<>>
    /\ pending = <<[ctor |-> TRUE, body |-> NoBody, game |-> NewGame(1, ConfigModes[1])]>>
    /\ minted = [gameIds |-> 1, hashes |-> 0]
    /\ mgrLog = NoMgrLog
    /\ mgrSteps = 0

\* findGame up to its return, or up to the await of newGame when no match qualifies
MgrFindGame ==
    mgrSteps < MaxMgrSteps /\
    \E body \in FindBodies :
        /\ LET i == pickGame(games, body)
           IN  IF i # 0
               THEN \E team \in TeamsFor(body) :
                      LET r == placeGroup(games[i], body, team, minted.hashes + 1)
                      IN  /\ r.minted => minted.hashes < MaxHashes
                          /\ games' = [games EXCEPT ![i] = r.entry]
                          /\ minted' = [minted EXCEPT
                                            !.hashes = IF r.minted THEN @ + 1 ELSE @]
                          /\ mgrLog' = [NoMgrLog EXCEPT
                                            !.call = "findGame", !.body = body,
                                            !.gameId = games[i].game.id,
                                            !.data = r.data, !.reused = r.reused]
                          /\ UNCHANGED <<gamesById, sockets, pending>>
               ELSE /\ minted.gameIds < MaxGameIds
                    /\ pending' = Append(pending,
                          [ctor |-> FALSE, body |-> body,
                           game |-> NewGame(minted.gameIds + 1,
                                            ConfigModes[body.gameModeIdx + 1])])
                    /\ minted' = [minted EXCEPT !.gameIds = @ + 1]
                    /\ mgrLog' = [NoMgrLog EXCEPT !.call = "findGame:await", !.body = body]
                    /\ UNCHANGED <<games, gamesById, sockets>>
        /\ MgrStep

\* game.init() of a waiting newGame is done: the match is registered, and the
\* findGame that waited for it goes on to its return
MgrNewGameDone ==
    mgrSteps < MaxMgrSteps /\
    \E n \in 1..Len(pending) :
        LET call == pending[n]
            rest == [j \in 1..(Len(pending) - 1) |->
                        IF j < n THEN pending[j] ELSE pending[j + 1]]
        IN  /\ pending' = rest
            /\ gamesById' = gamesById \cup {call.game.id}
            /\ UNCHANGED sockets
            /\ IF call.ctor
               THEN /\ games' = Append(games, Entry(call.game))
                    /\ mgrLog' = [NoMgrLog EXCEPT !.call = "newGame",
                                                  !.gameId = call.game.id, !.new = TRUE]
                    /\ UNCHANGED minted
               ELSE \E team \in TeamsFor(call.body) :
                      LET r == placeGroup(Entry(call.game), call.body, team,
                                          minted.hashes + 1)
                      IN  /\ r.minted => minted.hashes < MaxHashes
                          /\ games' = Append(games, r.entry)
                          /\ minted' = [minted EXCEPT
                                            !.hashes = IF r.minted THEN @ + 1 ELSE @]
                          /\ mgrLog' = [NoMgrLog EXCEPT
                                            !.call = "findGame", !.body = call.body,
                                            !.gameId = call.game.id, !.data = r.data,
                                            !.reused = r.reused, !.new = TRUE]
            /\ MgrStep

\* Game.update() as the manager sees it, line 264: a started match ages by the tick
gameUpdate(e) ==
    IF e.game.started THEN [e EXCEPT !.game.startedTime = @ + 1] ELSE e

\* the loop of update() that goes on to the next index after a splice
RECURSIVE updateLoopNoStepBack(_, _, _, _)
updateLoopNoStepBack(gs, byId, i, updated) ==
    IF i >= Len(gs)
    THEN [games |-> gs, gamesById |-> byId, updated |-> updated]
    ELSE LET e == gs[i + 1]
         IN  IF e.game.stopped
             THEN updateLoopNoStepBack(Splice1(gs, i + 1), byId \ {e.game.id},
                                       i + 1, updated)
             ELSE updateLoopNoStepBack([gs EXCEPT ![i + 1] = gameUpdate(e)], byId,
                                       i + 1, Append(updated, e.game.id))

\* the loop of update(), lines 529-538, from index i on (0-based, as in the
\* code): a stopped match is spliced out, i stepped back and the id deleted;
\* any other match gets game.update(); updated lists the ids that got it
RECURSIVE updateLoop(_, _, _, _)
updateLoop(gs, byId, i, updated) ==
    IF i >= Len(gs)
    THEN [games |-> gs, gamesById |-> byId, updated |-> updated]
    ELSE LET e == gs[i + 1]
         IN  IF e.game.stopped
             THEN updateLoop(Splice1(gs, i + 1), byId \ {e.game.id},
                             (i - 1) + 1, updated)
             ELSE updateLoop([gs EXCEPT ![i + 1] = gameUpdate(e)], byId,
                             i + 1, Append(updated, e.game.id))

\* update(): the stopped matches leave games and gamesById, the others advance
\* (a started match's startedTime by the tick)
MgrUpdate ==
    /\ mgrSteps < MaxMgrSteps
    /\ \A i \in 1..Len(games) :
           (games[i].game.started /\ ~games[i].game.stopped)
               => games[i].game.startedTime < MaxTime
    /\ LET r == updateLoop(games, gamesById, 0, <<>>)
       IN  /\ games' = r.games
           /\ gamesById' = r.gamesById
           /\ mgrLog' = [NoMgrLog EXCEPT !.call = "update", !.updated = r.updated]
    /\ UNCHANGED <<sockets, pending, minted>>
    /\ MgrStep

\* onOpen(socketId, socket); gameId is the socket's user data, any id ever drawn
MgrOnOpen ==
    mgrSteps < MaxMgrSteps /\
    \E s \in MgrSockets, gameId \in 1..minted.gameIds :
        /\ IF gameId \notin gamesById
           THEN /\ mgrLog' = [NoMgrLog EXCEPT !.call = "onOpen", !.socket = s,
                                              !.gameId = gameId, !.closed = {s}]
                /\ UNCHANGED sockets
           ELSE /\ mgrLog' = [NoMgrLog EXCEPT !.call = "onOpen", !.socket = s,
                                              !.gameId = gameId]
                /\ sockets' = MapSet(sockets, s, gameId)
        /\ UNCHANGED <<games, gamesById, pending, minted>>
        /\ MgrStep

\* onMsg(socketId, msg); gameId of the log is the match handleMsg was called on
MgrOnMsg ==
    mgrSteps < MaxMgrSteps /\
    \E s \in MgrSockets, type \in MgrMsgTypes :
        /\ IF s \notin DOMAIN sockets
           THEN /\ mgrLog' = [NoMgrLog EXCEPT !.call = "onMsg", !.socket = s, !.type = type]
                /\ UNCHANGED games
           ELSE IF sockets[s] \notin gamesById
           THEN /\ mgrLog' = [NoMgrLog EXCEPT !.call = "onMsg", !.socket = s, !.type = type]
                /\ UNCHANGED games
           ELSE LET i == GameIndex(games, sockets[s])
                    r == handleMsg(games[i].game, type, s)
                IN  /\ games' = [games EXCEPT ![i].game = r.game]
                    /\ mgrLog' = [NoMgrLog EXCEPT !.call = "onMsg", !.socket = s,
                                                  !.type = type, !.gameId = sockets[s],
                                                  !.closed = r.closed,
                                                  !.handler = r.handler]
        /\ UNCHANGED <<gamesById, sockets, pending, minted>>
        /\ MgrStep

\* onClose that forgets to drop the socket
onCloseKeeps(socks, s) == socks

\* onClose, line 661: this.sockets.delete(socketId)
onCloseDeletes(socks, s) == MapDelete(socks, s)

\* onClose(socketId); gameId of the log is the match handleSocketClose was called on
MgrOnClose ==
    mgrSteps < MaxMgrSteps /\
    \E s \in MgrSockets, early \in BOOLEAN :
        /\ IF s \notin DOMAIN sockets
           THEN /\ mgrLog' = [NoMgrLog EXCEPT !.call = "onClose", !.socket = s]
                /\ UNCHANGED <<games, sockets>>
           ELSE /\ sockets' = onCloseDeletes(sockets, s)
                /\ IF sockets[s] \notin gamesById
                   THEN /\ mgrLog' = [NoMgrLog EXCEPT !.call = "onClose", !.socket = s]
                        /\ UNCHANGED games
                   ELSE LET i == GameIndex(games, sockets[s])
                        IN  /\ games' = [games EXCEPT
                                   ![i].game = handleSocketClose(@, s, early)]
                            /\ mgrLog' = [NoMgrLog EXCEPT !.call = "onClose", !.socket = s,
                                                          !.gameId = sockets[s],
                                                          !.handler = "handleSocketClose"]
        /\ UNCHANGED <<gamesById, pending, minted>>
        /\ MgrStep

\* a match starts (PlayerBarn sets game.started)
MgrGameStarts ==
    mgrSteps < MaxMgrSteps /\
    \E i \in 1..Len(games) :
        /\ ~games[i].game.started
        /\ games' = [games EXCEPT ![i].game.started = TRUE]
        /\ mgrLog' = [NoMgrLog EXCEPT !.call = "start", !.gameId = games[i].game.id]
        /\ UNCHANGED <<gamesById, sockets, pending, minted>>
        /\ MgrStep

\* checkGameOver() of a match that is not over and that handleGameEnd() finds ended
\* (the other calls of checkGameOver change nothing)
MgrCheckGameOver ==
    mgrSteps < MaxMgrSteps /\
    \E i \in 1..Len(games) :
        /\ ~games[i].game.over
        /\ games' = [games EXCEPT ![i].game = checkGameOver(@, TRUE)]
        /\ mgrLog' = [NoMgrLog EXCEPT !.call = "checkGameOver", !.gameId = games[i].game.id]
        /\ UNCHANGED <<gamesById, sockets, pending, minted>>
        /\ MgrStep

\* the stop timer of a match fires
MgrStopTimer ==
    mgrSteps < MaxMgrSteps /\
    \E i \in 1..Len(games) :
        /\ games[i].game.stopTimer
        /\ games' = [games EXCEPT ![i].game = [stop(@) EXCEPT !.stopTimer = FALSE]]
        /\ mgrLog' = [NoMgrLog EXCEPT !.call = "stop", !.gameId = games[i].game.id,
                                      !.closed = stopCloses(games[i].game)]
        /\ UNCHANGED <<gamesById, sockets, pending, minted>>
        /\ MgrStep

\* a player enters a match (PlayerBarn.addPlayer) under a socket the match does
\* not know yet (the lowest one: which socket it is makes no difference here).  In a team match it comes with the oldest join code findGame
\* handed out: the first player of a code founds its group, a player placed by
\* auto-fill takes up the slot reserved for it.
MgrPlayerJoins ==
    mgrSteps < MaxMgrSteps /\
    \E i \in 1..Len(games), s \in MgrSockets :
        LET e == games[i]
        IN  /\ s \notin DOMAIN e.game.socketIdToPlayer
            /\ \A s2 \in MgrSockets \ DOMAIN e.game.socketIdToPlayer : s <= s2
            /\ IF e.game.teamMode = 1
               THEN games' = [games EXCEPT ![i].game = addPlayer(@, s)]
               ELSE /\ e.groupDatas # <<>>
                    /\ LET gd == Head(e.groupDatas)
                           at == { k \in 1..Len(e.groups) : e.groups[k].hash = gd.hash }
                       IN  IF at = {}
                           THEN games' = [games EXCEPT
                                    ![i].game = addPlayer(@, s),
                                    ![i].groupDatas = Tail(@),
                                    ![i].groups = Append(@, [hash |-> gd.hash,
                                                             autoFill |-> gd.autoFill,
                                                             players |-> 1,
                                                             reservedSlots |-> 0,
                                                             teamId |-> 1 + (Len(e.groups) % 2)])]
                           ELSE LET k == CHOOSE k \in at : TRUE
                                IN  /\ e.groups[k].reservedSlots > 0
                                    /\ games' = [games EXCEPT
                                           ![i].game = addPlayer(@, s),
                                           ![i].groupDatas = Tail(@),
                                           ![i].groups[k].players = @ + 1,
                                           ![i].groups[k].reservedSlots = @ - 1]
            /\ mgrLog' = [NoMgrLog EXCEPT !.call = "join", !.socket = s,
                                          !.gameId = e.game.id]
            /\ UNCHANGED <<gamesById, sockets, pending, minted>>
            /\ MgrStep

\* matchmaking: findGame calls, the matches' lives and the players that arrive
NextManager ==
    \/ MgrFindGame
    \/ MgrNewGameDone
    \/ MgrUpdate
    \/ MgrGameStarts
    \/ MgrCheckGameOver
    \/ MgrStopTimer
    \/ MgrPlayerJoins

SpecManager == InitManager /\ [][NextManager]_vars

\* socket routing: onOpen, onMsg and onClose while matches come and go
NextRouting ==
    \/ MgrFindGame
    \/ MgrNewGameDone
    \/ MgrUpdate
    \/ MgrCheckGameOver
    \/ MgrStopTimer
    \/ MgrOnOpen
    \/ MgrOnMsg
    \/ MgrOnClose

SpecRouting == InitManager /\ [][NextRouting]_vars

\* longest list of matches a simulation pass is tried on
MaxPassLen == 3

\* a match as it is listed: fresh or started, and stopped (by the timer that
\* checkGameOver set) or not
ListedGame(id, started, stopped) ==
    LET g == [NewGame(id, ConfigModes[1]) EXCEPT !.started = started]
    IN  Entry(IF stopped
              THEN [stop(checkGameOver(g, TRUE)) EXCEPT !.stopTimer = FALSE]
              ELSE g)

\* a manager that holds any list of up to MaxPassLen matches, any of them
\* stopped, each filed in gamesById as newGame files it
InitUpdate ==
    /\ LobbyIdle
    /\ GroupIdle
    /\ GameIdle
    /\ \E n \in 0..MaxPassLen :
          \E started \in [1..n -> BOOLEAN], stopped \in [1..n -> BOOLEAN] :
              /\ games = [i \in 1..n |-> ListedGame(i, started[i], stopped[i])]
              /\ gamesById = 1..n
              /\ minted = [gameIds |-> n, hashes |-> 0]
    /\ sockets = <<>>
    /\ pending = <<>>
    /\ mgrLog = NoMgrLog
    /\ mgrSteps = 0

\* the simulation pass alone
NextUpdate == MgrUpdate

SpecUpdate == InitUpdate /\ [][NextUpdate]_vars

\* Reservations: findGame calls, arriving players and simulation passes on duo
\* matches that stay open (they have not started), for as long as one likes

\* a manager with two registered duo matches nobody has been placed in yet
\* (two findGame calls that found no match have each created one)
InitReserve ==
    /\ LobbyIdle
    /\ GroupIdle
    /\ GameIdle
    /\ games = <<Entry(NewGame(1, ConfigModes[2])), Entry(NewGame(2, ConfigModes[2]))>>
    /\ gamesById = {1, 2}
    /\ sockets = <<>>
    /\ pending = <<>>
    /\ minted = [gameIds |-> 2, hashes |-> 0]
    /\ mgrLog = NoMgrLog
    /\ mgrSteps = 0

\* findGame for a team mode that finds a match to return (lines 584-590, 601-638)
RsvFindGame ==
    \E body \in { b \in FindBodies : ConfigModes[b.gameModeIdx + 1] > 1 } :
        LET i == pickGame(games, body)
        IN  /\ i # 0
            /\ \E team \in TeamsFor(body) :
                  LET r == placeGroup(games[i], body, team, minted.hashes + 1)
                  IN  /\ r.minted => minted.hashes < MaxHashes
                      /\ games' = [games EXCEPT ![i] = r.entry]
                      /\ minted' = [minted EXCEPT
                                        !.hashes = IF r.minted THEN @ + 1 ELSE @]
                      /\ mgrLog' = [NoMgrLog EXCEPT
                                        !.call = "findGame", !.body = body,
                                        !.gameId = games[i].game.id,
                                        !.data = r.data, !.reused = r.reused]
            /\ UNCHANGED <<gamesById, sockets, pending, mgrSteps>>
            /\ UNCHANGED <<lobbyVars, groupVars, gameVars>>

\* a player arrives with the oldest join code handed out: the first player of
\* a code founds its group, a player placed by auto-fill takes up its reserved slot
RsvPlayerJoins ==
    \E i \in 1..Len(games), s \in MgrSockets :
        LET e == games[i]
        IN  /\ s \notin DOMAIN e.game.socketIdToPlayer
            /\ \A s2 \in MgrSockets \ DOMAIN e.game.socketIdToPlayer : s <= s2
            /\ e.groupDatas # <<>>
            /\ LET gd == Head(e.groupDatas)
                   at == { k \in 1..Len(e.groups) : e.groups[k].hash = gd.hash }
               IN  IF at = {}
                   THEN games' = [games EXCEPT
                            ![i].game = addPlayer(@, s),
                            ![i].groupDatas = Tail(@),
                            ![i].groups = Append(@, [hash |-> gd.hash,
                                                     autoFill |-> gd.autoFill,
                                                     players |-> 1,
                                                     reservedSlots |-> 0,
                                                     teamId |-> 1 + (Len(e.groups) % 2)])]
                   ELSE LET k == CHOOSE k \in at : TRUE
                        IN  /\ e.groups[k].reservedSlots > 0
                            /\ games' = [games EXCEPT
                                   ![i].game = addPlayer(@, s),
                                   ![i].groupDatas = Tail(@),
                                   ![i].groups[k].players = @ + 1,
                                   ![i].groups[k].reservedSlots = @ - 1]
            /\ mgrLog' = [NoMgrLog EXCEPT !.call = "join", !.socket = s,
                                          !.gameId = e.game.id]
            /\ UNCHANGED <<gamesById, sockets, pending, minted, mgrSteps>>
            /\ UNCHANGED <<lobbyVars, groupVars, gameVars>>

\* the simulation timer fires: update(); now is the clock the pass reads
\* (Date.now(), line 259), kept modulo 2: no two passes in a row read the same
RsvUpdate ==
    LET r == updateLoop(games, gamesById, 0, <<>>)
    IN  /\ games' = r.games
        /\ gamesById' = r.gamesById
        /\ mgrLog' = [NoMgrLog EXCEPT !.call = "update", !.updated = r.updated,
                                      !.now = 1 - mgrLog.now]
        /\ UNCHANGED <<sockets, pending, minted, mgrSteps>>
        /\ UNCHANGED <<lobbyVars, groupVars, gameVars>>

NextReserve ==
    \/ RsvFindGame
    \/ RsvPlayerJoins
    \/ RsvUpdate

\* the timers of the constructor keep firing; whether a player that was given
\* a join code ever arrives is up to the player
SpecReserve == InitReserve /\ [][NextReserve]_vars /\ WF_vars(RsvUpdate)

----------------------------------------------------------------------------
(* The claims *)

\* the 1-based positions of the leader entries of a player list
Leaders(players) == { i \in 1..Len(players) : players[i].isLeader }

\* what the handler of the step at hand was called with, and on which room
Sender == req'.sock
SenderUrl == roomUrl[Sender]
SenderRoom == rooms[SenderUrl]
SenderPos == FindPlayer(SenderRoom.players, Sender)

\* C1: in every reachable state every room of the rooms map has exactly one
\* player whose isLeader flag is set.
C1_OneLeaderPerRoom ==
    \A c \in DOMAIN rooms : Cardinality(Leaders(rooms[c].players)) = 1

\* C1 witness: two rooms are active; a kick has just taken the leader out of a
\* room of three, and the two that are left are led by the first of them.
C1_Witness ==
    /\ req.type = "kick"
    /\ thrown = ""
    /\ Cardinality(DOMAIN rooms) = 2
    /\ roomUrl[req.sock] \in DOMAIN rooms
    /\ Len(rooms[roomUrl[req.sock]].players) = 2
    /\ \A i \in 1..2 : rooms[roomUrl[req.sock]].players[i].socketData # req.sock
    /\ Leaders(rooms[roomUrl[req.sock]].players) = {1}

\* C2: a kick by the leader with the index of another member removes that
\* member and nobody else: the room is afterwards the room before without the
\* entry at that index, so the sender is still in it and still its leader and
\* the others keep their order.
C2_KickRemovesTarget ==
    [][ ( /\ req'.type = "kick"
          /\ IsLeader(Sender)
          /\ canKick(SenderRoom.players, SenderPos, req'.data.playerId) )
        => /\ SenderUrl \in DOMAIN rooms'
           /\ rooms'[SenderUrl].players
                = Splice1(SenderRoom.players, req'.data.playerId + 1)
           /\ \E i \in 1..Len(rooms'[SenderUrl].players) :
                /\ rooms'[SenderUrl].players[i].socketData = Sender
                /\ rooms'[SenderUrl].players[i].isLeader ]_vars

\* C3: a join has one of three outcomes.  No room under the code: join_failed
\* to the sender alone, nothing modified.  Room at capacity (its player count
\* has reached maxPlayers): join_full to the sender alone, nothing modified.
\* Otherwise the sender is appended as the last entry, not leader, not in game.
C3_JoinOutcomes ==
    [][ req'.type = "join" =>
          LET url == "#" \o req'.data.roomUrl
          IN  IF url \notin DOMAIN rooms
              THEN /\ effects' = <<Send(Sender, teamErrorMsg("join_failed"))>>
                   /\ rooms' = rooms
              ELSE IF Len(rooms[url].players) >= rooms[url].roomData.maxPlayers
              THEN /\ effects' = <<Send(Sender, teamErrorMsg("join_full"))>>
                   /\ rooms' = rooms
              ELSE LET n == Len(rooms[url].players)
                   IN  /\ DOMAIN rooms' = DOMAIN rooms
                       /\ \A c \in DOMAIN rooms \ {url} : rooms'[c] = rooms[c]
                       /\ rooms'[url].roomData = rooms[url].roomData
                       /\ Len(rooms'[url].players) = n + 1
                       /\ SubSeq(rooms'[url].players, 1, n) = rooms[url].players
                       /\ rooms'[url].players[n + 1].socketData = Sender
                       /\ ~rooms'[url].players[n + 1].isLeader
                       /\ ~rooms'[url].players[n + 1].inGame ]_vars

\* C4: setRoomProps, kick or playGame from a member that is not the leader, and
\* a kick by the leader whose index is the leader's own or no member's, changes
\* nothing and sends nothing.
C4_DroppedRequests ==
    [][ ( \/ /\ req'.type \in {"setRoomProps", "kick", "playGame"}
             /\ IsMember(Sender)
             /\ ~IsLeader(Sender)
          \/ /\ req'.type = "kick"
             /\ IsLeader(Sender)
             /\ \/ req'.data.playerId + 1 = SenderPos
                \/ req'.data.playerId + 1 \notin 1..Len(SenderRoom.players) )
        => /\ rooms' = rooms
           /\ roomUrl' = roomUrl
           /\ effects' = <<>>
           /\ thrown' = "" ]_vars

\* C4 witness: the leader of a room of two or more has sent kick with its own
\* index, and nothing happened.
C4_Witness ==
    /\ req.type = "kick"
    /\ IsLeader(req.sock)
    /\ Len(rooms[roomUrl[req.sock]].players) >= 2
    /\ req.data.playerId + 1 = FindPlayer(rooms[roomUrl[req.sock]].players, req.sock)
    /\ effects = <<>>
    /\ thrown = ""
    /\ idle

\* C5: a playGame of the leader that matchmaking answers with a match of the
\* room's mode does, in this order: a state broadcast showing findingGame and
\* the members' flags as they were; the registration of the party (room id) with
\* the match; one joinGame with the match id and the room id to every member; a
\* state broadcast showing every member in game and findingGame cleared, which
\* is then the state of the room.
C5_PlayGameOrder ==
    [][ ( /\ req'.type = "playGame"
          /\ IsLeader(Sender)
          /\ ~req'.data.err
          /\ req'.data.teamMode = SenderRoom.roomData.gameModeIdx * 2 )
        => LET room  == SenderRoom
               n     == Len(room.players)
               after == rooms'[SenderUrl]
           IN  /\ Len(effects') = 3 * n + 1
               /\ \A i \in 1..n :
                    /\ effects'[i].op = "sendMsg"
                    /\ effects'[i].to = room.players[i].socketData
                    /\ effects'[i].msg.type = "state"
                    /\ effects'[i].msg.data.room.findingGame
                    /\ \A j \in 1..n :
                         effects'[i].msg.data.players[j].inGame = room.players[j].inGame
               /\ effects'[n + 1].op = "addGroup"
               /\ effects'[n + 1].to = req'.data.gameId
               /\ effects'[n + 1].msg.data = room.id
               /\ \A i \in 1..n :
                    /\ effects'[n + 1 + i].op = "sendMsg"
                    /\ effects'[n + 1 + i].to = room.players[i].socketData
                    /\ effects'[n + 1 + i].msg.type = "joinGame"
                    /\ effects'[n + 1 + i].msg.data.gameId = req'.data.gameId
                    /\ effects'[n + 1 + i].msg.data.data = room.id
               /\ \A i \in 1..n :
                    /\ effects'[2 * n + 1 + i].op = "sendMsg"
                    /\ effects'[2 * n + 1 + i].to = room.players[i].socketData
                    /\ effects'[2 * n + 1 + i].msg.type = "state"
                    /\ ~effects'[2 * n + 1 + i].msg.data.room.findingGame
                    /\ \A j \in 1..n : effects'[2 * n + 1 + i].msg.data.players[j].inGame
               /\ Len(after.players) = n
               /\ \A j \in 1..n :
                    /\ after.players[j].inGame
                    /\ after.players[j].socketData = room.players[j].socketData
               /\ ~after.roomData.findingGame ]_vars

\* C5 witness: a playGame has gone through for a room of two.
C5_Witness ==
    /\ req.type = "playGame"
    /\ thrown = ""
    /\ Len(effects) = 7
    /\ effects[3].op = "addGroup"
    /\ effects[5].msg.type = "joinGame"
    /\ roomUrl[req.sock] \in DOMAIN rooms
    /\ \A j \in 1..2 : rooms[roomUrl[req.sock]].players[j].inGame

\* C6: a playGame of the leader that matchmaking answers with an error, or with
\* a match of another mode, sends a find_game_error to the leader and to nobody
\* else, sends no joinGame, registers no group, and leaves the room (findingGame
\* included) and every member's flags as they were before the request.
C6_PlayGameFailureRestores ==
    [][ ( /\ req'.type = "playGame"
          /\ IsLeader(Sender)
          /\ \/ req'.data.err
             \/ req'.data.teamMode # SenderRoom.roomData.gameModeIdx * 2 )
        => /\ \E i \in 1..Len(effects') :
                effects'[i] = Send(Sender, teamErrorMsg("find_game_error"))
           /\ \A i \in 1..Len(effects') :
                /\ effects'[i].msg.type = "error" => effects'[i].to = Sender
                /\ effects'[i].msg.type # "joinGame"
                /\ effects'[i].op # "addGroup"
           /\ rooms' = rooms ]_vars

\* C7: create registers the new room under a code that no active room had, the
\* rooms that were active stay as they were, and every room is filed under the
\* code its own room data carries.
C7_CodesUnique ==
    [][ /\ req'.type = "create" =>
              /\ roomUrl'[Sender] \in DOMAIN rooms' \ DOMAIN rooms
              /\ DOMAIN rooms' = DOMAIN rooms \cup {roomUrl'[Sender]}
              /\ \A c \in DOMAIN rooms : rooms'[c] = rooms[c]
        /\ \A c \in DOMAIN rooms' : rooms'[c].roomData.roomUrl = c ]_vars

\* C7 witness: a create whose first draw was the code of a room that is still
\* active has registered a second room under its second draw.
C7_Witness ==
    /\ req.type = "create"
    /\ Len(req.data.draws) = 2
    /\ Cardinality(DOMAIN rooms) = 2
    /\ ("#" \o req.data.draws[1]) \in DOMAIN rooms
    /\ roomUrl[req.sock] = "#" \o req.data.draws[2]
    /\ rooms[roomUrl[req.sock]].players[1].socketData = req.sock

\* C8: removing a member takes exactly that entry out and keeps the others in
\* order; when the leader leaves a room that stays non-empty the first remaining
\* member becomes leader; a room emptied by the removal is deleted and nothing is
\* broadcast; other rooms are untouched and no active room is ever empty.
C8_RemoveMember ==
    [][ /\ (req'.type = "removePlayer" /\ IsMember(Sender)) =>
              LET room == SenderRoom
                  pos  == SenderPos
                  n    == Len(room.players)
              IN  /\ \A c \in DOMAIN rooms \ {SenderUrl} :
                        c \in DOMAIN rooms' /\ rooms'[c] = rooms[c]
                  /\ DOMAIN rooms' \subseteq DOMAIN rooms
                  /\ IF n = 1
                     THEN SenderUrl \notin DOMAIN rooms' /\ effects' = <<>>
                     ELSE /\ SenderUrl \in DOMAIN rooms'
                          /\ Len(rooms'[SenderUrl].players) = n - 1
                          /\ \A i \in 1..(n - 1) :
                               LET old == room.players[IF i < pos THEN i ELSE i + 1]
                                   now == rooms'[SenderUrl].players[i]
                               IN  /\ now.socketData = old.socketData
                                   /\ now.name = old.name
                                   /\ now.inGame = old.inGame
                                   /\ now.isLeader =
                                        (old.isLeader \/ (room.players[pos].isLeader /\ i = 1))
        /\ \A c \in DOMAIN rooms' : Len(rooms'[c].players) >= 1 ]_vars

\* C8 witness: a member has been removed from a room of three; the two others
\* are still there, the first of them leads, and both were told.
C8_Witness ==
    /\ req.type = "removePlayer"
    /\ thrown = ""
    /\ roomUrl[req.sock] \in DOMAIN rooms
    /\ Len(rooms[roomUrl[req.sock]].players) = 2
    /\ Len(effects) = 2
    /\ \A i \in 1..2 : rooms[roomUrl[req.sock]].players[i].socketData # req.sock
    /\ rooms[roomUrl[req.sock]].players[1].isLeader

StateMsgs == SelectSeq(effects, LAMBDA e : e.msg.type = "state")

\* C9: the state messages of a request are whole broadcasts of one room: each
\* broadcast has one message per entry of the room, in order, sent to that
\* entry's socket; the message lists the entries with playerId 0..n-1 by
\* position and its localPlayerId is the recipient's own position; the last
\* broadcast shows the room as it now is.  Only playGame broadcasts twice.
C9_StateBroadcast ==
    StateMsgs # <<>> =>
        LET url == StateMsgs[1].msg.data.room.roomUrl
        IN  /\ url \in DOMAIN rooms
            /\ LET ps == rooms[url].players
                   n  == Len(ps)
                   k  == Len(StateMsgs)
               IN  /\ k = n \/ (k = 2 * n /\ req.type = "playGame")
                   /\ \A i \in 1..k :
                        LET j == ((i - 1) % n) + 1
                            m == StateMsgs[i].msg.data
                        IN  /\ StateMsgs[i].to = ps[j].socketData
                            /\ m.localPlayerId = j - 1
                            /\ m.room.roomUrl = url
                            /\ Len(m.players) = n
                            /\ \A q \in 1..n :
                                 /\ m.players[q].playerId = q - 1
                                 /\ m.players[q].name = ps[q].name
                                 /\ m.players[q].isLeader = ps[q].isLeader
                            /\ i > k - n =>
                                 /\ m.room = rooms[url].roomData
                                 /\ \A q \in 1..n : m.players[q].inGame = ps[q].inGame

\* C9 witness: after a removal from a room of three the two remaining members
\* each got the state with their new position.
C9_Witness ==
    /\ req.type = "removePlayer"
    /\ Len(StateMsgs) = 2
    /\ StateMsgs[1].msg.data.localPlayerId = 0
    /\ StateMsgs[2].msg.data.localPlayerId = 1
    /\ StateMsgs[1].to # StateMsgs[2].to
    /\ rooms[roomUrl[req.sock]].players[2].playerId # 1

\* C10: after a kick that went through, exactly one "kicked" message was sent;
\* its recipient is no longer in the room and gets no state message; every
\* member left in the room, the leader who kicked among them, gets the state
\* exactly once.
C10_KickNotices ==
    (req.type = "kick" /\ \E i \in 1..Len(effects) : effects[i].msg.type = "kicked") =>
        LET kicked == SelectSeq(effects, LAMBDA e : e.msg.type = "kicked")
            url    == StateMsgs[1].msg.data.room.roomUrl
            got(s) == Len(SelectSeq(StateMsgs, LAMBDA e : e.to = s))
        IN  /\ Len(kicked) = 1
            /\ got(kicked[1].to) = 0
            /\ got(req.sock) = 1
            /\ StateMsgs # <<>>
            /\ url \in DOMAIN rooms
            /\ FindPlayer(rooms[url].players, kicked[1].to) = 0
            /\ FindPlayer(rooms[url].players, req.sock) # 0

\* C11: changeName, setRoomProps, kick, playGame or gameComplete from a socket
\* whose room code resolves to no active room, or that is not a member of the
\* room it resolves to, raises nothing, answers the sender with a lost_conn
\* error and modifies no room.
C11_StaleSenderLostConn ==
    [][ ( /\ req'.type \in {"changeName", "setRoomProps", "kick", "playGame", "gameComplete"}
          /\ ~IsMember(Sender) )
        => /\ thrown' = ""
           /\ effects' = <<Send(Sender, teamErrorMsg("lost_conn"))>>
           /\ rooms' = rooms ]_vars

AliveIds == { i \in 1..Len(group) : ~group[i].dead /\ ~group[i].disconnected }

\* C13: for a member p of the group, allTeammatesDeadOrDisconnected(p) is true
\* exactly when every other member is dead or disconnected; so it is true when
\* p is the only member.
C13_AllTeammatesDeadOrDisconnected ==
    (asked.fn = "allTeammatesDeadOrDisconnected" /\ asked.player \in 1..Len(group)) =>
        /\ asked.result =
              (\A i \in 1..Len(group) :
                   i # asked.player => (group[i].dead \/ group[i].disconnected))
        /\ Len(group) = 1 => asked.result

\* C13 witness: asked for a member of a group of three whose one teammate is
\* dead but connected and whose other is alive but disconnected: true.
C13_Witness ==
    /\ asked.fn = "allTeammatesDeadOrDisconnected"
    /\ asked.player = 2
    /\ Len(group) = 3
    /\ group[1].dead /\ ~group[1].disconnected
    /\ ~group[3].dead /\ group[3].disconnected
    /\ asked.result

\* C14: allTeammatesDowned(p) is true exactly when the group has a member other
\* than p that is not dead and every such member is downed; with no other
\* non-dead member it is false, whatever the disconnected flags.
C14_AllTeammatesDowned ==
    asked.fn = "allTeammatesDowned" =>
        LET others == { i \in 1..Len(group) : i # asked.player /\ ~group[i].dead }
        IN  /\ asked.result = (others # {} /\ \A i \in others : group[i].downed)
            /\ others = {} => ~asked.result

\* C14 witness: asked for a member whose only teammate is dead: false.
C14_Witness ==
    /\ asked.fn = "allTeammatesDowned"
    /\ asked.player = 1
    /\ Len(group) = 2
    /\ group[2].dead
    /\ group[2].disconnected
    /\ ~asked.result

\* how many steps forward (backward) in insertion order, wrapping, lead from
\* member p to member q; the whole round for q = p
StepsForward(p, q) == ((q - p - 1) % Len(group)) + 1
StepsBackward(p, q) == ((p - q - 1) % Len(group)) + 1

\* C15: for a member p that is alive and connected, nextPlayer(p) is the alive,
\* connected member that follows p most closely in insertion order, wrapping
\* from the last to the first, prevPlayer(p) the one that precedes it most
\* closely, wrapping the other way; neither is dead or disconnected, and each
\* undoes the other.
C15_CyclicNavigation ==
    /\ \A p \in AliveIds :
         LET n == nextPlayer(group, p)
             b == prevPlayer(group, p)
         IN  /\ n \in AliveIds
             /\ \A q \in AliveIds : StepsForward(p, n) <= StepsForward(p, q)
             /\ b \in AliveIds
             /\ \A q \in AliveIds : StepsBackward(p, b) <= StepsBackward(p, q)
             /\ prevPlayer(group, n) = p
             /\ nextPlayer(group, b) = p
    /\ (asked.fn = "nextPlayer" /\ asked.player \in AliveIds) =>
          asked.result = nextPlayer(group, asked.player)
    /\ (asked.fn = "prevPlayer" /\ asked.player \in AliveIds) =>
          asked.result = prevPlayer(group, asked.player)

\* C15 witness: in a group of three whose second member is dead, prevPlayer of
\* the first member is the third.
C15_Witness ==
    /\ asked.fn = "prevPlayer"
    /\ asked.player = 1
    /\ Len(group) = 3
    /\ AliveIds = {1, 3}
    /\ asked.result = 3
    /\ nextPlayer(group, 3) = 1

\* C16: canJoin is true exactly when the living-player count is below the
\* mode's maximum, the match is not over and the gas stage is below 2; a match
\* that is over or stopped is never joinable, and is never reported as joinable,
\* whatever its player count.
C16_CanJoin ==
    /\ canJoin(game) = ( /\ aliveCount(game) < MapMaxPlayers
                         /\ ~game.over
                         /\ game.gasStage < 2 )
    /\ (game.over \/ game.stopped) =>
          /\ ~canJoin(game)
          /\ \A i \in 1..Len(gameLog.reports) : ~gameLog.reports[i]

\* C16 witness: a match with nobody alive and the gas at stage 0 has been
\* stopped, and reported itself not joinable.
C16_Witness ==
    /\ gameLog.call = "stop"
    /\ game.stopped
    /\ aliveCount(game) = 0
    /\ game.gasStage = 0
    /\ gameLog.reports = <<FALSE>>

\* C17: a message other than Join from a socket with no player closes that
\* socket, creates no player and runs no handler; a Join from such a socket gives
\* it a player and nobody else one; a message from a socket that has a player
\* never changes who has a player (a repeated Join changes nothing at all);
\* Input, DropItem and Spectate run the handler of the sending socket's player
\* and of no other.
C17_Dispatch ==
    [][ gameLog'.call = "handleMsg" =>
          LET s    == gameLog'.socket
              type == gameLog'.type
              had  == DOMAIN game.socketIdToPlayer
          IN  /\ (s \notin had /\ type # "Join") =>
                    /\ gameLog'.closed = {s}
                    /\ gameLog'.handler = "none"
                    /\ game' = game
              /\ (s \notin had /\ type = "Join") =>
                    /\ DOMAIN game'.socketIdToPlayer = had \cup {s}
                    /\ \A o \in had : game'.socketIdToPlayer[o] = game.socketIdToPlayer[o]
                    /\ gameLog'.closed = {}
              /\ s \in had =>
                    /\ game' = game
                    /\ gameLog'.closed = {}
                    /\ gameLog'.handler # "addPlayer"
              /\ (s \in had /\ type \in {"Input", "DropItem", "Spectate"}) =>
                    /\ gameLog'.player = s
                    /\ gameLog'.handler =
                          (CASE type = "Input"    -> "handleInput"
                             [] type = "DropItem" -> "dropItem"
                             [] type = "Spectate" -> "spectate")
              /\ gameLog'.handler \in {"handleInput", "dropItem", "spectate", "emote"} =>
                    gameLog'.player = s /\ s \in had ]_vars

\* C17 witness: a socket whose player is dead and disconnected has sent Join
\* again while another socket has a player too; nothing was added or closed.
C17_Witness ==
    /\ gameLog.call = "handleMsg"
    /\ gameLog.type = "Join"
    /\ gameLog.handler = "none"
    /\ gameLog.closed = {}
    /\ gameLog.socket \in DOMAIN game.socketIdToPlayer
    /\ game.socketIdToPlayer[gameLog.socket].dead
    /\ game.socketIdToPlayer[gameLog.socket].disconnected
    /\ Cardinality(DOMAIN game.socketIdToPlayer) = 2

\* the matches of gs that accept joins and have the mode a findGame body asks for
Joinable(gs, body) ==
    { i \in 1..Len(gs) : canJoin(gs[i].game) /\ gs[i].game.gameModeIdx = body.gameModeIdx }

TeamSize(body) == ConfigModes[body.gameModeIdx + 1]

\* the groups of the match with the given id, none if no such match is listed
GroupsOf(gs, id) ==
    IF \E i \in 1..Len(gs) : gs[i].game.id = id
    THEN gs[GameIndex(gs, id)].groups
    ELSE <<>>

OthersUntouched(gs, gs2, id) ==
    /\ Len(gs2) = Len(gs)
    /\ \A i \in 1..Len(gs) : gs[i].game.id # id => gs2[i] = gs[i]

\* C20: onOpen registers the socket exactly when the match of its user data is
\* in gamesById, and otherwise closes it and registers nothing; onMsg and
\* onClose reach the match the socket is registered for and no other, and no
\* match at all when the socket is not registered or its match is gone from
\* gamesById; after onClose the socket is not registered.
C20_Routing ==
    [][ LET s  == mgrLog'.socket
            id == mgrLog'.gameId
        IN  /\ mgrLog'.call = "onOpen" =>
                  /\ games' = games
                  /\ IF id \in gamesById
                     THEN /\ s \in DOMAIN sockets'
                          /\ sockets'[s] = id
                          /\ mgrLog'.closed = {}
                          /\ \A o \in MgrSockets \ {s} :
                                 /\ o \in DOMAIN sockets' <=> o \in DOMAIN sockets
                                 /\ o \in DOMAIN sockets => sockets'[o] = sockets[o]
                     ELSE /\ sockets' = sockets
                          /\ mgrLog'.closed = {s}
            /\ mgrLog'.call \in {"onMsg", "onClose"} =>
                  /\ gamesById' = gamesById
                  /\ IF s \in DOMAIN sockets /\ sockets[s] \in gamesById
                     THEN /\ id = sockets[s]
                          /\ OthersUntouched(games, games', id)
                     ELSE /\ id = 0
                          /\ games' = games
                          /\ mgrLog'.handler = NoMgrLog.handler
                          /\ mgrLog'.closed = {}
            /\ mgrLog'.call = "onMsg" => sockets' = sockets
            /\ mgrLog'.call = "onClose" =>
                  /\ s \notin DOMAIN sockets'
                  /\ \A o \in MgrSockets \ {s} :
                         /\ o \in DOMAIN sockets' <=> o \in DOMAIN sockets
                         /\ o \in DOMAIN sockets => sockets'[o] = sockets[o]
      ]_vars

\* a registered socket has sent a message after update() removed its match,
\* and the message reached no match
C20_Witness ==
    /\ mgrLog.call = "onMsg"
    /\ mgrLog.socket \in DOMAIN sockets
    /\ sockets[mgrLog.socket] \notin gamesById
    /\ mgrLog.gameId = 0

\* C27: whenever the group has a member that is alive and connected,
\* nextPlayer(c) and prevPlayer(c) are alive, connected members for every
\* current player c (a member alive or not, or a player of another group);
\* they are undefined only when the group has no alive, connected member.
C27_NavigationTotal ==
    asked.fn \in {"nextPlayer", "prevPlayer"} =>
        /\ AliveIds # {} => asked.result \in AliveIds
        /\ AliveIds = {} => asked.result = 0

\* C25: in every state reached by create, join, setRoomProps, kick and removal
\* no room holds more players than its current maxPlayers, also after the
\* leader has lowered the mode of a room that holds more players than the new
\* capacity.
C25_RoomWithinCapacity ==
    \A url \in DOMAIN rooms :
        Len(rooms[url].players) <= rooms[url].roomData.maxPlayers

\* C26: removePlayer for a socket that is not a member of the room its roomUrl
\* resolves to (the disconnect of a player a kick has already removed, a
\* second removal of the same socket) removes no other player, changes no
\* leader flag and deletes no room.
C26_RemoveNonMember ==
    [][ (/\ req'.type = "removePlayer"
         /\ SenderUrl \in DOMAIN rooms
         /\ SenderPos = 0)
            => rooms' = rooms
      ]_vars

\* the ids of the matches of gs that are not stopped, in list order
LiveIds(gs) ==
    LET kept == SelectSeq(gs, LAMBDA e : ~e.game.stopped)
    IN  [i \in 1..Len(kept) |-> kept[i].game.id]

\* C23: after one pass of update() over any list of matches with any of them
\* stopped, no stopped match is left in games or gamesById, every match that
\* was not stopped got exactly one game.update(), in list order, and games
\* and gamesById hold the same matches.
C23_UpdatePass ==
    [][ mgrLog'.call = "update" =>
          /\ \A i \in 1..Len(games') : ~games'[i].game.stopped
          /\ \A i \in 1..Len(games) :
                games[i].game.stopped => games[i].game.id \notin gamesById'
          /\ mgrLog'.updated = LiveIds(games)
          /\ LiveIds(games') = LiveIds(games)
          /\ gamesById' = { games'[i].game.id : i \in 1..Len(games') }
      ]_vars

\* a pass over three matches, the second and the third (the last) stopped, has
\* left the first one alone in the list and updated it
C23_Witness ==
    /\ mgrLog.call = "update"
    /\ minted.gameIds = 3
    /\ mgrLog.updated = <<1>>
    /\ Len(games) = 1
    /\ gamesById = {1}

\* C21: when handleGameEnd() signals the end, the match is marked over and a
\* data update is pushed in that step, and nothing is torn down in it; stop is
\* scheduled once (a checkGameOver on a match that is over does nothing);
\* every over match is eventually stopped; a match is never stopped without
\* being over; over and stopped are never reset; stop closes the socket of
\* each player that is not disconnected, and a stop of a stopped match closes
\* nothing and changes nothing.
C21_GameOverThenStop ==
    /\ [][ /\ (gameLog'.call = "checkGameOver" /\ ~game.over /\ game'.over) =>
                /\ Len(gameLog'.reports) = 1
                /\ game'.stopTimer
                /\ game'.stopped = game.stopped
                /\ gameLog'.closed = {}
           /\ (gameLog'.call = "checkGameOver" /\ game.over) =>
                /\ game' = game
                /\ gameLog'.reports = <<>>
           /\ game.over => game'.over
           /\ game.stopped => game'.stopped
           /\ (~game.stopped /\ game'.stopped) =>
                /\ gameLog'.call = "stop"
                /\ game.over
                /\ gameLog'.closed =
                      { s \in DOMAIN game.socketIdToPlayer :
                            ~game.socketIdToPlayer[s].disconnected }
         ]_vars
    /\ [](game.stopped => game.over)
    /\ [](stop(stop(game)) = stop(game) /\ stopCloses(stop(game)) = {})
    /\ (game.over ~> game.stopped)

\* the stop timer of a match that is over has fired with a connected and a
\* disconnected player in the match, and closed the connected one's socket only
C21_Witness ==
    /\ gameLog.call = "stop"
    /\ game.over
    /\ game.stopped
    /\ ~game.stopTimer
    /\ \E s \in DOMAIN game.socketIdToPlayer : game.socketIdToPlayer[s].disconnected
    /\ gameLog.closed # {}
    /\ gameLog.closed =
          { s \in DOMAIN game.socketIdToPlayer : ~game.socketIdToPlayer[s].disconnected }

\* C22: for any interleaving of update() and netSync() on a match, update
\* never clears a mark of the object register and never moves the buffer
\* cursor back; netSync sends what is marked and written before it flushes,
\* flushes once and leaves the cursor at 0; so each netSync carries exactly
\* what the update calls since the previous netSync marked and wrote.
C22_SyncCarriesAll ==
    [][ /\ syncLog'.call = "update" =>
              /\ objectRegister \subseteq objectRegister'
              /\ syncLog'.changes \subseteq objectRegister'
              /\ msgsToSend' = msgsToSend + syncLog'.written
              /\ syncLog'.flushes = 0
        /\ syncLog'.call = "netSync" =>
              /\ syncLog'.sent = unsent
              /\ syncLog'.flushes = 1
              /\ objectRegister' = {}
              /\ msgsToSend' = 0
      ]_vars

\* a netSync has carried the marks of two update calls and a written message,
\* and left the register and the buffer empty
C22_Witness ==
    /\ syncLog.call = "netSync"
    /\ Cardinality(syncLog.sent.changes) >= 2
    /\ syncLog.sent.bytes >= 1
    /\ objectRegister = {}
    /\ msgsToSend = 0
    /\ unsent = NoneUnsent

\* a slot is reserved in the group of join code h
ReservedAt(h) ==
    \E i \in 1..Len(games) : \E k \in 1..Len(games[i].groups) :
        /\ games[i].groups[k].hash = h
        /\ games[i].groups[k].reservedSlots > 0

\* C24: every slot findGame reserves is eventually released: the group's
\* reservedSlots goes back down (or the group goes away) when the player
\* arrives or when it never does, so that no group stays shut out of auto-fill
\* placement by reservations that were never taken up.
C24_ReservationsReleased ==
    \A h \in 1..MaxHashes : ReservedAt(h) ~> ~ReservedAt(h)

====
